---- MODULE Spec2Model ----
(***************************************************************************)
(* The request pipeline of gw2api-rs: Client::send, the ResponseFuture     *)
(* polling state machine, the blocking client that drives it, and the      *)
(* RateLimiter admission gate.                                             *)
(***************************************************************************)
EXTENDS Integers, Sequences, FiniteSets, TLC

VARIABLES
    mode,          \* which executor the caller uses: "async" | "blocking"
    access_token,  \* Client.access_token : Option<String>
    language,      \* Client.language
    transport,     \* requests handed to hyper::Client::request, oldest first
    nsends,        \* number of send calls made so far
    builder,       \* Option: the RequestBuilder of the most recent send
    fut,           \* the ResponseFuture of the most recent send: state tag
                   \* ("NoFuture" before any send), is_error, and the Option
                   \* held by State::Result
    completed,     \* the I/O handles of this future that already returned Ready
    ret,           \* what the most recent poll returned
    polled,        \* the handles the most recent poll polled, in order
    decodes,       \* the schemas serde_json::from_slice was run with, for this future
    resp_status,   \* Option: the status of the response the transport delivered
    resp_body,     \* Option: the body bytes the transport delivered
    delivered,     \* results the caller has received for this future
    panicked,      \* the polling thread panicked
    dropped,       \* the caller dropped the future before it completed
    overflow_checks, \* the build panics on integer overflow (debug) or wraps (release)
    now,           \* tokio's clock, in seconds since the limiter was constructed
    limit,         \* RateLimiter.limit
    rl_state,      \* the State inside RateLimiter.state: Ready { until, rem } | Limited
    rl_sleep,      \* the deadline of the Sleep inside RateLimiter.state
    poisoned,      \* a poll_ready panicked while holding the mutex
    rl_op,         \* the most recent call on the limiter and what it returned
    ncalls,        \* poll_ready calls so far
    nwindows,      \* windows opened so far
    win_limit,     \* the limit read when the current window was opened
    outcomes,      \* what each poll_ready returned since the current window opened
    ep_call,       \* the most recent call of a generated endpoint function
    ep_request,    \* Option: the RequestBuilder that call handed to the executor
    aa_input,      \* the JSON array of strings handed to AccountAccess::deserialize
    aa_result,     \* what that deserialize returned
    aa_serialized, \* the AccountAccess last serialized, with the length it declared
                   \* to the serializer and the elements it wrote
    tasks,         \* the tasks awaiting ready() on one shared limiter: where each
                   \* is, the State it read under the mutex, and whether its last
                   \* poll handed its waker to the timer
    rl_lock,       \* Option: the task holding the MutexGuard of RateLimiter.state
    rl_waker       \* Option: the task whose waker the Sleep holds

pvars == <<mode, access_token, language, transport, nsends, builder, fut, completed,
           ret, polled, decodes, resp_status, resp_body, delivered, panicked, dropped>>

rvars == <<overflow_checks, now, limit, rl_state, rl_sleep, poisoned, rl_op, ncalls,
           nwindows, win_limit, outcomes>>

evars == <<ep_call, ep_request>>

avars == <<aa_input, aa_result, aa_serialized>>

tvars == <<tasks, rl_lock, rl_waker>>

vars == <<pvars, rvars, evars, avars, tvars>>

----------------------------------------------------------------------------
(* Bounds of the model *)

MaxSends == 2
MaxCalls == 5
MaxTime == 150
TickStep == 30
MaxLimit == 3

----------------------------------------------------------------------------
(* Option<T> as a sequence of length 0 or 1 *)

None == <<>>
Some(x) == <<x>>

----------------------------------------------------------------------------
(* Client configuration and request builders *)

SCHEMA_VERSION_older == "2019-12-19T00:00:00.000Z"

SCHEMA_VERSION == "2022-03-23T19:00:00.000Z"

Tokens == {"ABCD-1234"}

Language == {"en", "es", "de", "fr", "zh"}

LanguageDefault == "en"

Authentication == {"None", "Optional", "Required"}

is_none(a) == a = "None"

Uris == {"/v2/build", "/v2/tokeninfo"}

\* RequestBuilder::new(uri): authentication None, not localized
RequestBuilderNew(uri) == [uri |-> uri, authentication |-> "None", localized |-> FALSE]

authenticated(b, v) == [b EXCEPT !.authentication = v]

localized(b, v) == [b EXCEPT !.localized = v]

Builders ==
    { localized(authenticated(RequestBuilderNew(u), a), l) :
        u \in Uris, a \in Authentication, l \in BOOLEAN }

----------------------------------------------------------------------------
(* JSON bodies and the two schemas they are decoded through *)

VAbsent == [k |-> "absent", s |-> "", n |-> 0]
VStr(m) == [k |-> "str", s |-> m, n |-> 0]
VNum(i) == [k |-> "num", s |-> "", n |-> i]

Msgs == {"no access token", "Invalid access token"}

Invalid == [syntax |-> "invalid", text |-> VAbsent, id |-> VAbsent, elems |-> <<>>]
Array(e) == [syntax |-> "array", text |-> VAbsent, id |-> VAbsent, elems |-> e]
Object(t, i) == [syntax |-> "object", text |-> t, id |-> i, elems |-> <<>>]

\* Body bytes: not JSON at all, a JSON array, or a JSON object with (possibly)
\* a "text" member and an "id" member.
Bodies ==
    {Invalid, Array(<<>>), Array(<<VStr("no access token")>>), Array(<<VNum(7)>>)}
    \cup {Object(VAbsent, VAbsent), Object(VNum(7), VAbsent),
          Object(VAbsent, VNum(7)), Object(VAbsent, VNum(-1))}
    \cup {Object(VStr(m), VAbsent) : m \in Msgs}
    \cup {Object(VStr(m), VNum(7)) : m \in Msgs}

\* serde_json::from_slice::<ApiError>: a map with a string member "text" (other
\* members are ignored), or a one-element sequence holding the string.
from_slice_ApiError(buf) ==
    CASE buf.syntax = "object" /\ buf.text.k = "str" ->
            [ok |-> TRUE, text |-> buf.text.s]
      [] buf.syntax = "array" /\ Len(buf.elems) = 1 /\ buf.elems[1].k = "str" ->
            [ok |-> TRUE, text |-> buf.elems[1].s]
      [] OTHER -> [ok |-> FALSE, text |-> ""]

\* serde_json::from_slice::<T> with T = Build { id: u64 }
from_slice_T(buf) ==
    CASE buf.syntax = "object" /\ buf.id.k = "num" /\ buf.id.n >= 0 ->
            [ok |-> TRUE, id |-> buf.id.n]
      [] buf.syntax = "array" /\ Len(buf.elems) = 1 /\ buf.elems[1].k = "num"
            /\ buf.elems[1].n >= 0 ->
            [ok |-> TRUE, id |-> buf.elems[1].n]
      [] OTHER -> [ok |-> FALSE, id |-> 0]

----------------------------------------------------------------------------
(* Results and poll values *)

Ok(id) == [tag |-> "Ok", text |-> "", id |-> id]
ErrApi(text) == [tag |-> "Api", text |-> text, id |-> 0]
ErrHttp == [tag |-> "Http", text |-> "", id |-> 0]
ErrJson == [tag |-> "Json", text |-> "", id |-> 0]
ErrNoAccessToken == [tag |-> "NoAccessToken", text |-> "", id |-> 0]

NotPolled == [p |-> "NotPolled", r |-> None]
Pending == [p |-> "Pending", r |-> None]
Ready(r) == [p |-> "Ready", r |-> Some(r)]

\* Error::is_http / Error::is_json
is_http(e) == e.tag = "Http"
is_json(e) == e.tag = "Json"

Statuses == {200, 299, 300, 404}

\* is_success accepting 200 alone
is_success_only_200(status) == status = 200

\* StatusCode::is_success as used on the response
is_success(status) == 200 <= status /\ status < 300

----------------------------------------------------------------------------
(* What the hyper handles can report to one poll *)

HeaderPending == [t |-> "Pending", status |-> 0]

HeaderOutcomes ==
    {HeaderPending, [t |-> "Err", status |-> 0]}
    \cup {[t |-> "Ok", status |-> s] : s \in Statuses}

BodyPending == [t |-> "Pending", buf |-> Invalid]

BodyOutcomes ==
    {BodyPending, [t |-> "Err", buf |-> Invalid]}
    \cup {[t |-> "Ok", buf |-> b] : b \in Bodies}

\* What the handles a poll of future f reaches can report: the header handle
\* while f awaits headers, and the body handle once a response has arrived.
\* A handle that is not reached has nothing to report.
Env(f, done) ==
    CASE f.state = "Response" /\ "header" \notin done ->
            {<<h, BodyPending>> : h \in {x \in HeaderOutcomes : x.t # "Ok"}}
            \cup {<<h, b>> : h \in {x \in HeaderOutcomes : x.t = "Ok"},
                             b \in BodyOutcomes}
      [] f.state = "Body" /\ "body" \notin done ->
            {<<HeaderPending, b>> : b \in BodyOutcomes}
      [] OTHER -> {<<HeaderPending, BodyPending>>}

----------------------------------------------------------------------------
(* Client::send *)

Host == "https://api.guildwars2.com"

\* send with the early return replaced by an unauthenticated dispatch
send_dispatches_without_token(token, b) ==
    LET req == [uri |-> Host \o b.uri,
                headers |-> << <<"x-schema-version", SCHEMA_VERSION>> >>]
    IN  IF ~is_none(b.authentication) /\ token # None
        THEN Some([req EXCEPT !.headers =
                   Append(@, <<"authorization", "Bearer " \o token[1]>>)])
        ELSE Some(req)

\* send attaching the credential whenever a token is configured
send_always_authorizes(token, b) ==
    LET req == [uri |-> Host \o b.uri,
                headers |-> << <<"x-schema-version", SCHEMA_VERSION>> >>]
    IN  IF token = None
        THEN IF ~is_none(b.authentication) THEN None ELSE Some(req)
        ELSE Some([req EXCEPT !.headers =
                   Append(@, <<"authorization", "Bearer " \o token[1]>>)])

\* The request send builds for a builder, or None when it returns early with
\* NoAccessToken. Header names are stored the way http::HeaderName keeps them
\* (lower case).
send(token, b) ==
    LET req == [uri |-> Host \o b.uri,
                headers |-> << <<"x-schema-version", SCHEMA_VERSION>> >>]
    IN  IF ~is_none(b.authentication)
        THEN IF token = None
             THEN None
             ELSE Some([req EXCEPT !.headers =
                        Append(@, <<"authorization", "Bearer " \o token[1]>>)])
        ELSE Some(req)

\* The blocking client building its own request, without the token check
blocking_send_own_request(token, b) == send_dispatches_without_token(token, b)

\* blocking::Client::send hands the builder to the inner client's send
blocking_send(token, b) == send(token, b)

\* Runtime::block_on returns the future's output once a poll is Ready, and
\* keeps the calling thread parked while polls are Pending.
block_on(r) == IF r.p = "Ready" THEN r.r ELSE None

\* ResponseFuture::new and ResponseFuture::result
ResponseFutureNew == [state |-> "Response", is_error |-> FALSE, slot |-> None]
ResponseFutureResult(res) == [state |-> "Result", is_error |-> FALSE, slot |-> Some(res)]

NoFuture == [state |-> "NoFuture", is_error |-> FALSE, slot |-> None]

\* A dropped future that goes on holding its state and its handle
drop_leaks(f) == f

\* Dropping a ResponseFuture drops its State, and with it the hyper future or
\* the boxed body future the variant owns; the type has no Drop impl of its own.
drop(f) == [state |-> "Dropped", is_error |-> f.is_error, slot |-> None]

----------------------------------------------------------------------------
(* ResponseFuture::poll *)

\* The outcome of one poll call: the future afterwards, the value returned, the
\* handles polled, the schemas decoded through, the handles that completed,
\* what the transport delivered in this call, and the requests the call handed
\* to the transport (poll holds no client and hands it none).
PollOut(f, r, pl, dc, cp, st, bd) ==
    [fut |-> f, ret |-> r, polled |-> pl, decodes |-> dc, completes |-> cp,
     status |-> st, body |-> bd, panic |-> FALSE, requests |-> <<>>]

\* Polling a handle that already returned Ready, or taking the emptied slot.
PollPanic(f, pl) ==
    [fut |-> f, ret |-> [p |-> "Panic", r |-> None], polled |-> pl, decodes |-> <<>>,
     completes |-> {}, status |-> None, body |-> None, panic |-> TRUE,
     requests |-> <<>>]

\* The Response arm's decode reporting a made-up Api error when the error
\* schema does not fit
DecodeInline_generic_error(ie, buf) ==
    IF ie
    THEN LET st == from_slice_ApiError(buf)
         IN  IF st.ok THEN ErrApi(st.text) ELSE ErrApi("")
    ELSE LET st == from_slice_T(buf)
         IN  IF st.ok THEN Ok(st.id) ELSE ErrJson

\* The decode of the Response arm, on the local copy of is_error.
DecodeInline(ie, buf) ==
    IF ie
    THEN LET st == from_slice_ApiError(buf)
         IN  IF st.ok THEN ErrApi(st.text) ELSE ErrJson
    ELSE LET st == from_slice_T(buf)
         IN  IF st.ok THEN Ok(st.id) ELSE ErrJson

\* The Body arm's decode ignoring the error flag
DecodeBody_ignores_flag(ie, buf) ==
    LET st == from_slice_T(buf)
    IN  IF st.ok THEN Ok(st.id) ELSE ErrJson

\* The decode of the Body arm, on self.is_error.
DecodeBody(ie, buf) ==
    IF ie
    THEN LET st == from_slice_ApiError(buf)
         IN  IF st.ok THEN ErrApi(st.text) ELSE ErrJson
    ELSE LET st == from_slice_T(buf)
         IN  IF st.ok THEN Ok(st.id) ELSE ErrJson

Schema(ie) == IF ie THEN "ApiError" ELSE "T"

\* The Response arm returning Pending once the body read has begun, leaving
\* its first poll to the next call
PollResponse_defers_body(f, done, h, b) ==
    IF "header" \in done THEN PollPanic(f, <<"header">>)
    ELSE CASE h.t = "Pending" ->
                PollOut(f, Pending, <<"header">>, <<>>, {}, None, None)
           [] h.t = "Err" ->
                PollOut(f, Ready(ErrHttp), <<"header">>, <<>>, {"header"}, None, None)
           [] h.t = "Ok" ->
                LET ie == IF ~is_success(h.status) THEN TRUE ELSE f.is_error
                    g  == [f EXCEPT !.is_error = ie, !.state = "Body"]
                IN  PollOut(g, Pending, <<"header">>, <<>>, {"header"},
                            Some(h.status), None)

\* The Response arm keeping the error flag in a local only
PollResponse_flag_not_stored(f, done, h, b) ==
    IF "header" \in done THEN PollPanic(f, <<"header">>)
    ELSE CASE h.t = "Pending" ->
                PollOut(f, Pending, <<"header">>, <<>>, {}, None, None)
           [] h.t = "Err" ->
                PollOut(f, Ready(ErrHttp), <<"header">>, <<>>, {"header"}, None, None)
           [] h.t = "Ok" ->
                LET ie == IF ~is_success(h.status) THEN TRUE ELSE f.is_error
                    g  == [f EXCEPT !.state = "Body"]
                    pl == <<"header", "body">>
                IN  CASE b.t = "Pending" ->
                            PollOut(g, Pending, pl, <<>>, {"header"},
                                    Some(h.status), None)
                      [] b.t = "Err" ->
                            PollOut(g, Ready(ErrHttp), pl, <<>>, {"header", "body"},
                                    Some(h.status), None)
                      [] b.t = "Ok" ->
                            PollOut(g, Ready(DecodeInline(ie, b.buf)), pl,
                                    <<Schema(ie)>>, {"header", "body"},
                                    Some(h.status), Some(b.buf))

\* The Response arm issuing the request again when the header handle fails
PollResponse_retries(f, done, h, b) ==
    IF "header" \in done THEN PollPanic(f, <<"header">>)
    ELSE CASE h.t = "Pending" ->
                PollOut(f, Pending, <<"header">>, <<>>, {}, None, None)
           [] h.t = "Err" ->
                [PollOut(f, Pending, <<"header">>, <<>>, {}, None, None)
                    EXCEPT !.requests = <<[uri |-> Host, headers |-> <<>>]>>]
           [] h.t = "Ok" ->
                LET ie == IF ~is_success(h.status) THEN TRUE ELSE f.is_error
                    g  == [f EXCEPT !.is_error = ie, !.state = "Body"]
                    pl == <<"header", "body">>
                IN  CASE b.t = "Pending" ->
                            PollOut(g, Pending, pl, <<>>, {"header"},
                                    Some(h.status), None)
                      [] b.t = "Err" ->
                            PollOut(g, Ready(ErrHttp), pl, <<>>, {"header", "body"},
                                    Some(h.status), None)
                      [] b.t = "Ok" ->
                            PollOut(g, Ready(DecodeInline(ie, b.buf)), pl,
                                    <<Schema(ie)>>, {"header", "body"},
                                    Some(h.status), Some(b.buf))

\* State::Response arm: poll the header handle; when it is ready with a response,
\* set is_error, move to Body and poll the body read once in the same call.
PollResponse(f, done, h, b) ==
    IF "header" \in done THEN PollPanic(f, <<"header">>)
    ELSE CASE h.t = "Pending" ->
                PollOut(f, Pending, <<"header">>, <<>>, {}, None, None)
           [] h.t = "Err" ->
                PollOut(f, Ready(ErrHttp), <<"header">>, <<>>, {"header"}, None, None)
           [] h.t = "Ok" ->
                LET ie == IF ~is_success(h.status) THEN TRUE ELSE f.is_error
                    g  == [f EXCEPT !.is_error = ie, !.state = "Body"]
                    pl == <<"header", "body">>
                IN  CASE b.t = "Pending" ->
                            PollOut(g, Pending, pl, <<>>, {"header"},
                                    Some(h.status), None)
                      [] b.t = "Err" ->
                            PollOut(g, Ready(ErrHttp), pl, <<>>, {"header", "body"},
                                    Some(h.status), None)
                      [] b.t = "Ok" ->
                            PollOut(g, Ready(DecodeInline(ie, b.buf)), pl,
                                    <<Schema(ie)>>, {"header", "body"},
                                    Some(h.status), Some(b.buf))

\* The Body arm starting over from the header handle when the body is pending
PollBody_restarts(f, done, b) ==
    IF "body" \in done THEN PollPanic(f, <<"body">>)
    ELSE CASE b.t = "Pending" ->
                PollOut([f EXCEPT !.state = "Response"], Pending, <<"body">>, <<>>,
                        {}, None, None)
           [] b.t = "Err" ->
                PollOut(f, Ready(ErrHttp), <<"body">>, <<>>, {"body"}, None, None)
           [] b.t = "Ok" ->
                PollOut(f, Ready(DecodeBody(f.is_error, b.buf)), <<"body">>,
                        <<Schema(f.is_error)>>, {"body"}, None, Some(b.buf))

\* The Body arm decoding the bytes read so far when the body read fails
PollBody_decodes_on_error(f, done, b) ==
    IF "body" \in done THEN PollPanic(f, <<"body">>)
    ELSE CASE b.t = "Pending" ->
                PollOut(f, Pending, <<"body">>, <<>>, {}, None, None)
           [] b.t = "Err" ->
                PollOut(f, Ready(DecodeBody(f.is_error, b.buf)), <<"body">>,
                        <<Schema(f.is_error)>>, {"body"}, None, None)
           [] b.t = "Ok" ->
                PollOut(f, Ready(DecodeBody(f.is_error, b.buf)), <<"body">>,
                        <<Schema(f.is_error)>>, {"body"}, None, Some(b.buf))

\* State::Body arm
PollBody(f, done, b) ==
    IF "body" \in done THEN PollPanic(f, <<"body">>)
    ELSE CASE b.t = "Pending" ->
                PollOut(f, Pending, <<"body">>, <<>>, {}, None, None)
           [] b.t = "Err" ->
                PollOut(f, Ready(ErrHttp), <<"body">>, <<>>, {"body"}, None, None)
           [] b.t = "Ok" ->
                PollOut(f, Ready(DecodeBody(f.is_error, b.buf)), <<"body">>,
                        <<Schema(f.is_error)>>, {"body"}, None, Some(b.buf))

\* The Result arm handing out a copy and keeping the stored result
PollResult_keeps_result(f) ==
    IF f.slot = None THEN PollPanic(f, <<>>)
    ELSE PollOut(f, Ready(f.slot[1]), <<>>, <<>>, {}, None, None)

\* State::Result arm: res.take().unwrap()
PollResult(f) ==
    IF f.slot = None THEN PollPanic(f, <<>>)
    ELSE PollOut([f EXCEPT !.slot = None], Ready(f.slot[1]), <<>>, <<>>, {}, None, None)

poll(f, done, h, b) ==
    CASE f.state = "Response" -> PollResponse(f, done, h, b)
      [] f.state = "Body" -> PollBody(f, done, b)
      [] f.state = "Result" -> PollResult(f)

\* No client has sent anything.
PipelineIdle ==
    /\ mode = "async"
    /\ access_token = None
    /\ language = LanguageDefault
    /\ transport = <<>>
    /\ nsends = 0
    /\ builder = None
    /\ fut = NoFuture
    /\ completed = {}
    /\ ret = NotPolled
    /\ polled = <<>>
    /\ decodes = <<>>
    /\ resp_status = None
    /\ resp_body = None
    /\ delivered = <<>>
    /\ panicked = FALSE
    /\ dropped = FALSE

----------------------------------------------------------------------------
(* The functions the endpoint! macro generates *)

MaxId == 120
MaxIds == 4
MaxListId == 3

\* One endpoint!(target, path, id type [, get_all]) invocation each
Mini == [path |-> "/v2/minis", id |-> "u64", get_all |-> TRUE]
Quaggan == [path |-> "/v2/quaggans", id |-> "String", get_all |-> TRUE]
Dungeon == [path |-> "/v2/dungeons", id |-> "String", get_all |-> TRUE]
Currency == [path |-> "/v2/currencies", id |-> "u64", get_all |-> TRUE]
Raid == [path |-> "/v2/raids", id |-> "String", get_all |-> TRUE]
Novelty == [path |-> "/v2/novelties", id |-> "u64", get_all |-> TRUE]
Title == [path |-> "/v2/titles", id |-> "u64", get_all |-> TRUE]
Achievement == [path |-> "/v2/achievements", id |-> "u64", get_all |-> FALSE]
File == [path |-> "/v2/files", id |-> "String", get_all |-> TRUE]
Color == [path |-> "/v2/colors", id |-> "u64", get_all |-> TRUE]
World == [path |-> "/v2/worlds", id |-> "u64", get_all |-> TRUE]

Endpoints ==
    {Mini, Quaggan, Dungeon, Currency, Raid, Novelty, Title, Achievement, File,
     Color, World}

\* Values of the id types: u64 and String
U64(n) == [t |-> "u64", n |-> n, s |-> ""]
Str(s) == [t |-> "String", n |-> 0, s |-> s]

StringIds == {"cheer", "404", "map_complete"}

IdsOf(t) ==
    IF t = "u64" THEN {U64(n) : n \in 0 .. MaxId} ELSE {Str(x) : x \in StringIds}

Digits == <<"0", "1", "2", "3", "4", "5", "6", "7", "8", "9">>

\* Display for u64: decimal, most significant digit first, no padding
RECURSIVE to_string(_)
to_string(n) ==
    IF n < 10 THEN Digits[n + 1] ELSE to_string(n \div 10) \o Digits[(n % 10) + 1]

\* The "{}" of format! applied to an id
Display(id) == IF id.t = "u64" THEN to_string(id.n) ELSE id.s

\* get with the plural parameter name
endpoint_get_plural(path, id) == RequestBuilderNew(path \o "?ids=" \o Display(id))

\* $target::get(client, id)
endpoint_get(path, id) == RequestBuilderNew(path \o "?id=" \o Display(id))

\* $target::get_all(client)
endpoint_get_all(path) == RequestBuilderNew(path \o "?ids=all")

\* $target::ids(client)
endpoint_ids(path) == RequestBuilderNew(path)

\* The ids of a "multiple ids" request: joined by commas, the first one
\* unseparated, in the order given
RECURSIVE join_ids(_)
join_ids(ids) ==
    IF Len(ids) = 1
    THEN Display(ids[1])
    ELSE join_ids(SubSeq(ids, 1, Len(ids) - 1)) \o "," \o Display(ids[Len(ids)])

\* Client::get_with_ids::<T, U>(ids), for a non-empty id list
get_with_ids(path, ids) == RequestBuilderNew(path \o "?ids=" \o join_ids(ids))

\* The ids with every repetition after the first removed
RECURSIVE Dedup(_)
Dedup(ids) ==
    IF ids = <<>> THEN <<>>
    ELSE LET front == Dedup(SubSeq(ids, 1, Len(ids) - 1))
             last == ids[Len(ids)]
         IN  IF \E i \in DOMAIN front : front[i] = last THEN front
             ELSE Append(front, last)

\* The blocking wrapper dropping repeated ids before it delegates
blocking_get_with_ids_dedup(path, ids) == get_with_ids(path, Dedup(ids))

\* blocking::Client::get_with_ids hands the ids to the inner client unchanged
blocking_get_with_ids(path, ids) == get_with_ids(path, ids)

\* The id lists a caller passes: non-empty, up to MaxIds long
ListIdsOf(t) ==
    IF t = "u64" THEN {U64(n) : n \in (0 .. MaxListId) \cup {MaxId}}
    ELSE {Str(x) : x \in StringIds}

IdLists(t) ==
    UNION {[1 .. n -> ListIdsOf(t)] : n \in 1 .. MaxIds}

NoCall == [op |-> "none", path |-> "", arg |-> <<>>]

\* No endpoint function has been called.
EndpointIdle ==
    /\ ep_call = NoCall
    /\ ep_request = None

----------------------------------------------------------------------------
(* AccountAccess *)

MaxElems == 3

\* 1 << k
NONE == 2^0
PLAY_FOR_FREE == 2^1
GUILD_WARS_2 == 2^2
HEART_OF_THORNS == 2^3
PATH_OF_FIRE == 2^4
END_OF_DRAGONS == 2^5

NONE_STR == "None"
PLAY_FOR_FREE_STR == "PlayForFree"
GUILD_WARS_2_STR == "GuildWars2"
HEART_OF_THORNS_STR == "HeartOfThorns"
PATH_OF_FIRE_STR == "PathOfFire"
END_OF_DRAGONS_STR == "EndOfDragons"

\* | and & on u8, bit by bit from the least significant
RECURSIVE BitOr(_, _)
BitOr(a, b) ==
    IF a = 0 THEN b
    ELSE IF b = 0 THEN a
    ELSE (IF a % 2 = 1 \/ b % 2 = 1 THEN 1 ELSE 0) + 2 * BitOr(a \div 2, b \div 2)

RECURSIVE BitAnd(_, _)
BitAnd(a, b) ==
    IF a = 0 \/ b = 0 THEN 0
    ELSE (IF a % 2 = 1 /\ b % 2 = 1 THEN 1 ELSE 0) + 2 * BitAnd(a \div 2, b \div 2)

RECURSIVE count_ones(_)
count_ones(a) == IF a = 0 THEN 0 ELSE (a % 2) + count_ones(a \div 2)

\* AccountAccess::len and the accessors
len(a) == count_ones(a)
none(a) == BitAnd(a, NONE) # 0
play_for_free(a) == BitAnd(a, PLAY_FOR_FREE) # 0
guild_wars_2(a) == BitAnd(a, GUILD_WARS_2) # 0
heart_of_thorns(a) == BitAnd(a, HEART_OF_THORNS) # 0
path_of_fire(a) == BitAnd(a, PATH_OF_FIRE) # 0
end_of_dragons(a) == BitAnd(a, END_OF_DRAGONS) # 0

\* The elements of the JSON array being decoded: strings, and values that are
\* not strings, which next_element::<&str> rejects.
JStr(x) == [k |-> "str", s |-> x]
JNum == [k |-> "num", s |-> ""]

\* Names the API sends and names the visitor does not know
AccessStrings ==
    {NONE_STR, PLAY_FOR_FREE_STR, GUILD_WARS_2_STR, HEART_OF_THORNS_STR,
     PATH_OF_FIRE_STR, END_OF_DRAGONS_STR,
     "SecretsOfTheObscure", "guildwars2", "PathOfFire ", ""}

Elems == {JStr(x) : x \in AccessStrings} \cup {JNum}

AccessInputs == UNION {[1 .. n -> Elems] : n \in 0 .. MaxElems}

DecodedOk(state) == [t |-> "Ok", bits |-> state, msg |-> ""]
DecodedErr(msg) == [t |-> "Err", bits |-> 0, msg |-> msg]
NotDecoded == [t |-> "NotCalled", bits |-> 0, msg |-> ""]

\* The match on an element skipping strings it does not know
visit_elem_skips_unknown(state, elem) ==
    CASE elem.k # "str" -> [t |-> "Err", state |-> state, msg |-> "invalid type"]
      [] elem.s = NONE_STR ->
            [t |-> "Next", state |-> BitOr(state, NONE), msg |-> ""]
      [] elem.s = PLAY_FOR_FREE_STR ->
            [t |-> "Next", state |-> BitOr(state, PLAY_FOR_FREE), msg |-> ""]
      [] elem.s = GUILD_WARS_2_STR ->
            [t |-> "Next", state |-> BitOr(state, GUILD_WARS_2), msg |-> ""]
      [] elem.s = HEART_OF_THORNS_STR ->
            [t |-> "Next", state |-> BitOr(state, HEART_OF_THORNS), msg |-> ""]
      [] elem.s = PATH_OF_FIRE_STR ->
            [t |-> "Next", state |-> BitOr(state, PATH_OF_FIRE), msg |-> ""]
      [] elem.s = END_OF_DRAGONS_STR ->
            [t |-> "Next", state |-> BitOr(state, END_OF_DRAGONS), msg |-> ""]
      [] OTHER -> [t |-> "Next", state |-> state, msg |-> ""]

\* One turn of the loop of visit_seq on an element that is present:
\* next_element::<&str>()? and the match on it.
visit_elem(state, elem) ==
    CASE elem.k # "str" -> [t |-> "Err", state |-> state, msg |-> "invalid type"]
      [] elem.s = NONE_STR ->
            [t |-> "Next", state |-> BitOr(state, NONE), msg |-> ""]
      [] elem.s = PLAY_FOR_FREE_STR ->
            [t |-> "Next", state |-> BitOr(state, PLAY_FOR_FREE), msg |-> ""]
      [] elem.s = GUILD_WARS_2_STR ->
            [t |-> "Next", state |-> BitOr(state, GUILD_WARS_2), msg |-> ""]
      [] elem.s = HEART_OF_THORNS_STR ->
            [t |-> "Next", state |-> BitOr(state, HEART_OF_THORNS), msg |-> ""]
      [] elem.s = PATH_OF_FIRE_STR ->
            [t |-> "Next", state |-> BitOr(state, PATH_OF_FIRE), msg |-> ""]
      [] elem.s = END_OF_DRAGONS_STR ->
            [t |-> "Next", state |-> BitOr(state, END_OF_DRAGONS), msg |-> ""]
      [] OTHER -> [t |-> "Err", state |-> state, msg |-> "invalid account access"]

\* The loop of visit_seq from element i on, with the bits collected so far
RECURSIVE visit_seq_from(_, _, _)
visit_seq_from(seq, i, state) ==
    IF i > Len(seq) THEN DecodedOk(state)
    ELSE LET o == visit_elem(state, seq[i])
         IN  IF o.t = "Err" THEN DecodedErr(o.msg)
             ELSE visit_seq_from(seq, i + 1, o.state)

visit_seq(seq) == visit_seq_from(seq, 1, 0)

\* AccountAccess::deserialize on a JSON array
deserialize(seq) == visit_seq(seq)

\* Every value an AccountAccess built from the six flags can hold
FlagSets == 0 .. (2 * END_OF_DRAGONS - 1)

\* The elements AccountAccess::serialize writes, flag by flag in the order of
\* its if statements (the one for NONE_STR is commented out)
serialize_elems(a) ==
    (IF play_for_free(a) THEN <<PLAY_FOR_FREE_STR>> ELSE <<>>)
    \o (IF guild_wars_2(a) THEN <<GUILD_WARS_2_STR>> ELSE <<>>)
    \o (IF heart_of_thorns(a) THEN <<HEART_OF_THORNS_STR>> ELSE <<>>)
    \o (IF path_of_fire(a) THEN <<PATH_OF_FIRE_STR>> ELSE <<>>)
    \o (IF end_of_dragons(a) THEN <<END_OF_DRAGONS_STR>> ELSE <<>>)

\* AccountAccess::serialize: serialize_seq(Some(self.len())), the elements, end
serialize(a) == [value |-> a, declared |-> len(a), elems |-> serialize_elems(a)]

NotSerialized == [value |-> 0, declared |-> 0, elems |-> <<"-">>]

\* Nothing has been decoded or serialized.
AccessIdle ==
    /\ aa_input = <<>>
    /\ aa_result = NotDecoded
    /\ aa_serialized = NotSerialized

----------------------------------------------------------------------------
(* RateLimiter *)

\* Duration::new(60, 0), the length of a window
WINDOW == 60

\* usize arithmetic. The width is kept small so that the wrapped values stay
\* within the checker's integers; only the fact of wrapping matters.
UsizeMax == 65535

usize_add(a, b) ==
    [overflow |-> a + b > UsizeMax, v |-> (a + b) % (UsizeMax + 1)]

usize_sub(a, b) ==
    [overflow |-> a < b, v |-> (a - b + UsizeMax + 1) % (UsizeMax + 1)]

StateReady(until, rem) == [tag |-> "Ready", until |-> until, rem |-> rem]
StateLimited == [tag |-> "Limited"]

\* RateLimiter::new(limit) at time t
RateLimiterNew(l, t) == [limit |-> l, state |-> StateReady(t, l), sleep |-> t]

\* The outcome of one poll_ready call.
ReadyOut(st, sl, r, opened) ==
    [state |-> st, sleep |-> sl, ret |-> r, opened |-> opened, panic |-> FALSE]

ReadyPanic(st, sl) ==
    [state |-> st, sleep |-> sl, ret |-> "Panic", opened |-> FALSE, panic |-> TRUE]

\* The Ready arm loading the configured limit on every call
PollReadyReady_reloads_limit(st, sl, lim, t, checks) ==
    LET expired == t >= st.until
        until == IF expired THEN t + WINDOW ELSE st.until
        rem == IF expired \/ lim < st.rem THEN lim ELSE st.rem
    IN  IF rem > 1
        THEN LET n == usize_add(rem, 1)
             IN  IF n.overflow /\ checks
                 THEN ReadyPanic(st, sl)
                 ELSE ReadyOut(StateReady(until, n.v), sl, "Ready", expired)
        ELSE ReadyOut(StateLimited, until, "Pending", expired)

\* The Ready arm resetting the window only once its end lies in the past
PollReadyReady_strict_expiry(st, sl, lim, t, checks) ==
    LET expired == t > st.until
        until == IF expired THEN t + WINDOW ELSE st.until
        rem == IF expired THEN lim ELSE st.rem
    IN  IF rem > 1
        THEN LET n == usize_add(rem, 1)
             IN  IF n.overflow /\ checks
                 THEN ReadyPanic(st, sl)
                 ELSE ReadyOut(StateReady(until, n.v), sl, "Ready", expired)
        ELSE ReadyOut(StateLimited, until, "Pending", expired)

\* State::Ready arm of poll_ready at time t with the configured limit lim.
PollReadyReady(st, sl, lim, t, checks) ==
    LET expired == t >= st.until
        until == IF expired THEN t + WINDOW ELSE st.until
        rem == IF expired THEN lim ELSE st.rem
    IN  IF rem > 1
        THEN LET n == usize_add(rem, 1)
             IN  IF n.overflow /\ checks
                 THEN ReadyPanic(st, sl)
                 ELSE ReadyOut(StateReady(until, n.v), sl, "Ready", expired)
        ELSE ReadyOut(StateLimited, until, "Pending", expired)

\* State::Limited arm of poll_ready: the Sleep is pending until its deadline.
PollReadyLimited(st, sl, lim, t, checks) ==
    IF t < sl
    THEN ReadyOut(st, sl, "Pending", FALSE)
    ELSE LET n == usize_sub(lim, 1)
         IN  IF n.overflow /\ checks
             THEN ReadyPanic(st, sl)
             ELSE ReadyOut(StateReady(t + WINDOW, n.v), sl, "Ready", TRUE)

poll_ready(st, sl, lim, t, checks) ==
    IF st.tag = "Ready"
    THEN PollReadyReady(st, sl, lim, t, checks)
    ELSE PollReadyLimited(st, sl, lim, t, checks)

\* RateLimiter::change(new_limit) at time t, on the limiter rl
change(rl, new_limit, t) == [rl EXCEPT !.limit = new_limit]

Limits == 0 .. MaxLimit

NumTasks == 3

Tasks == 1 .. NumTasks

NotRead == [tag |-> "NotRead"]

\* A task that has created its Ready future and has not been polled
NewTask == [pc |-> "start", seen |-> NotRead, reg |-> FALSE]

\* No task has polled the limiter.
TasksIdle ==
    /\ tasks = [t \in Tasks |-> NewTask]
    /\ rl_lock = None
    /\ rl_waker = None

\* A lock that is handed out while another task holds it
can_lock_always(holder) == TRUE

\* Mutex::lock returns once no other thread holds the guard
can_lock(holder) == holder = None

\* Sleep::poll(cx) at time t: pending before the deadline, and then the Sleep
\* keeps the waker of cx in place of the one it held
sleep_poll(waker, deadline, t, task) ==
    IF t < deadline
    THEN [pending |-> TRUE, waker |-> Some(task)]
    ELSE [pending |-> FALSE, waker |-> waker]

\* Sleep::reset(deadline) moves the deadline and is not a poll: it takes no waker
sleep_reset(waker, deadline) == [deadline |-> deadline, waker |-> waker]

NoOp == [op |-> "none", ret |-> "none"]

RateLimiterIdle ==
    /\ overflow_checks = FALSE
    /\ now = 0
    /\ limit = 0
    /\ rl_state = StateReady(0, 0)
    /\ rl_sleep = 0
    /\ poisoned = FALSE
    /\ rl_op = NoOp
    /\ ncalls = 0
    /\ nwindows = 0
    /\ win_limit = 0
    /\ outcomes = <<>>

InitRateLimiter ==
    /\ TasksIdle
    /\ PipelineIdle
    /\ EndpointIdle
    /\ AccessIdle
    /\ overflow_checks \in BOOLEAN
    /\ now = 0
    /\ \E l \in Limits :
         LET rl == RateLimiterNew(l, now)
         IN  /\ limit = rl.limit
             /\ rl_state = rl.state
             /\ rl_sleep = rl.sleep
             /\ win_limit = l
    /\ poisoned = FALSE
    /\ rl_op = NoOp
    /\ ncalls = 0
    /\ nwindows = 0
    /\ outcomes = <<>>

\* One call of poll_ready, under the mutex. A call on a poisoned mutex panics
\* in lock().unwrap() and touches nothing.
PollReady ==
    /\ ncalls < MaxCalls
    /\ ncalls' = ncalls + 1
    /\ IF poisoned
       THEN /\ rl_op' = [op |-> "poll_ready", ret |-> "Panic"]
            /\ UNCHANGED <<rl_state, rl_sleep, poisoned, nwindows, win_limit, outcomes>>
       ELSE LET o == poll_ready(rl_state, rl_sleep, limit, now, overflow_checks)
            IN  /\ rl_state' = o.state
                /\ rl_sleep' = o.sleep
                /\ poisoned' = o.panic
                /\ rl_op' = [op |-> "poll_ready", ret |-> o.ret]
                /\ nwindows' = IF o.opened THEN nwindows + 1 ELSE nwindows
                /\ win_limit' = IF o.opened THEN limit ELSE win_limit
                /\ outcomes' = CASE o.panic -> outcomes
                                  [] o.opened -> <<o.ret>>
                                  [] OTHER -> Append(outcomes, o.ret)
    /\ UNCHANGED <<overflow_checks, now, limit>>
    /\ UNCHANGED <<pvars, evars, avars, tvars>>

\* RateLimiter::change(new_limit)
Change(new_limit) ==
    /\ LET rl == change([limit |-> limit, state |-> rl_state, sleep |-> rl_sleep],
                        new_limit, now)
       IN  /\ limit' = rl.limit
           /\ rl_state' = rl.state
           /\ rl_sleep' = rl.sleep
    /\ rl_op' = [op |-> "change", ret |-> "none"]
    /\ UNCHANGED <<overflow_checks, now, poisoned, ncalls, nwindows, win_limit, outcomes>>
    /\ UNCHANGED <<pvars, evars, avars, tvars>>

\* Time passes.
Tick ==
    /\ now + TickStep <= MaxTime
    /\ now' = now + TickStep
    /\ rl_op' = NoOp
    /\ UNCHANGED <<overflow_checks, limit, rl_state, rl_sleep, poisoned, ncalls, nwindows,
                   win_limit, outcomes>>
    /\ UNCHANGED <<pvars, evars, avars, tvars>>

NextRateLimiter ==
    \/ PollReady
    \/ \E l \in Limits : Change(l)
    \/ Tick

SpecRateLimiter == InitRateLimiter /\ [][NextRateLimiter]_vars

----------------------------------------------------------------------------
(* Tasks sharing one RateLimiter *)

InitTasks ==
    /\ PipelineIdle
    /\ EndpointIdle
    /\ AccessIdle
    /\ TasksIdle
    /\ overflow_checks \in BOOLEAN
    /\ now = 0
    /\ \E l \in Limits :
         LET rl == RateLimiterNew(l, now)
         IN  /\ limit = rl.limit
             /\ rl_state = rl.state
             /\ rl_sleep = rl.sleep
             /\ win_limit = l
    /\ poisoned = FALSE
    /\ rl_op = NoOp
    /\ ncalls = 0
    /\ nwindows = 0
    /\ outcomes = <<>>

\* Task t is polled and enters poll_ready: self.state.lock().unwrap(), then the
\* match reads inner.0. On a poisoned mutex the unwrap panics and the guard
\* inside the error is dropped.
Acquire(t) ==
    /\ tasks[t].pc = "start"
    /\ can_lock(rl_lock)
    /\ IF poisoned
       THEN /\ tasks' = [tasks EXCEPT ![t].pc = "panicked"]
            /\ UNCHANGED rl_lock
       ELSE /\ tasks' = [tasks EXCEPT ![t].pc = "locked", ![t].seen = rl_state]
            /\ rl_lock' = Some(t)
    /\ UNCHANGED <<rl_waker, rvars, pvars, evars, avars>>

\* Task t runs the arm it matched and returns; the guard is dropped on every
\* way out, the unwinding of a panic included.
Finish(t) ==
    /\ tasks[t].pc = "locked"
    /\ LET st == tasks[t].seen
           o == poll_ready(st, rl_sleep, limit, now, overflow_checks)
           w == IF st.tag = "Limited"
                THEN sleep_poll(rl_waker, rl_sleep, now, t).waker
                ELSE IF o.state.tag = "Limited"
                THEN sleep_reset(rl_waker, o.sleep).waker
                ELSE rl_waker
       IN  /\ rl_state' = o.state
           /\ rl_sleep' = o.sleep
           /\ poisoned' = o.panic
           /\ rl_waker' = w
           /\ tasks' = [tasks EXCEPT
                  ![t].pc = CASE o.panic -> "panicked"
                              [] o.ret = "Ready" -> "admitted"
                              [] OTHER -> "suspended",
                  ![t].seen = NotRead,
                  ![t].reg = st.tag = "Limited" /\ o.ret = "Pending"]
    /\ rl_lock' = None
    /\ UNCHANGED <<overflow_checks, now, limit, rl_op, ncalls, nwindows, win_limit,
                   outcomes>>
    /\ UNCHANGED <<pvars, evars, avars>>

\* The timer reaches its deadline and wakes the task whose waker it holds; the
\* executor polls that task again.
Fire ==
    /\ rl_waker # None
    /\ now >= rl_sleep
    /\ rl_waker' = None
    /\ tasks' = [tasks EXCEPT ![rl_waker[1]].pc =
                    IF @ = "suspended" THEN "start" ELSE @]
    /\ UNCHANGED <<rl_lock, rvars, pvars, evars, avars>>

NextTasks ==
    \/ \E t \in Tasks : Acquire(t)
    \/ \E t \in Tasks : Finish(t)
    \/ Fire
    \/ \E l \in Limits : Change(l)
    \/ Tick

SpecTasks == InitTasks /\ [][NextTasks]_vars

----------------------------------------------------------------------------
(* The pipeline as a state machine *)

InitPipeline ==
    /\ TasksIdle
    /\ RateLimiterIdle
    /\ EndpointIdle
    /\ AccessIdle
    /\ mode \in {"async", "blocking"}
    /\ access_token \in {None} \cup {Some(t) : t \in Tokens}
    /\ language \in Language
    /\ transport = <<>>
    /\ nsends = 0
    /\ builder = None
    /\ fut = NoFuture
    /\ completed = {}
    /\ ret = NotPolled
    /\ polled = <<>>
    /\ decodes = <<>>
    /\ resp_status = None
    /\ resp_body = None
    /\ delivered = <<>>
    /\ panicked = FALSE
    /\ dropped = FALSE

\* Client::send (async), and the first half of blocking::Client::send, which
\* hands the same future to Runtime::block_on.
Send(b) ==
    /\ nsends < MaxSends
    /\ ~panicked
    /\ fut.state = "NoFuture" \/ ret.p = "Ready" \/ dropped
    /\ LET req == IF mode = "blocking"
                  THEN blocking_send(access_token, b)
                  ELSE send(access_token, b)
       IN  IF req = None
           THEN /\ fut' = ResponseFutureResult(ErrNoAccessToken)
                /\ UNCHANGED transport
           ELSE /\ fut' = ResponseFutureNew
                /\ transport' = Append(transport, req[1])
    /\ nsends' = nsends + 1
    /\ builder' = Some(b)
    /\ completed' = {}
    /\ ret' = NotPolled
    /\ polled' = <<>>
    /\ decodes' = <<>>
    /\ resp_status' = None
    /\ resp_body' = None
    /\ delivered' = <<>>
    /\ dropped' = FALSE
    /\ UNCHANGED <<mode, access_token, language, panicked>>
    /\ UNCHANGED <<rvars, evars, avars, tvars>>

\* One poll of the future, by the caller's executor (async) or by block_on
\* (blocking), which stops polling once the future is Ready.
Poll(h, b) ==
    /\ fut.state \notin {"NoFuture", "Dropped"}
    /\ ~panicked
    /\ mode = "blocking" => ret.p # "Ready"
    /\ LET o == poll(fut, completed, h, b)
       IN  /\ fut' = o.fut
           /\ ret' = o.ret
           /\ polled' = o.polled
           /\ decodes' = decodes \o o.decodes
           /\ completed' = completed \cup o.completes
           /\ resp_status' = IF o.status = None THEN resp_status ELSE o.status
           /\ resp_body' = IF o.body = None THEN resp_body ELSE o.body
           /\ delivered' = CASE mode = "blocking" -> delivered \o block_on(o.ret)
                             [] o.ret.p = "Ready" -> Append(delivered, o.ret.r[1])
                             [] OTHER -> delivered
           /\ panicked' = o.panic
           /\ transport' = transport \o o.requests
    /\ UNCHANGED <<mode, access_token, language, nsends, builder, dropped>>
    /\ UNCHANGED <<rvars, evars, avars, tvars>>

\* The caller of the async client drops the future while its request is in
\* flight (block_on keeps the future until it is Ready).
Drop ==
    /\ mode = "async"
    /\ ~panicked /\ ~dropped
    /\ \/ fut.state = "Response" /\ "header" \notin completed
       \/ fut.state = "Body" /\ "body" \notin completed
    /\ fut' = drop(fut)
    /\ dropped' = TRUE
    /\ UNCHANGED <<mode, access_token, language, transport, nsends, builder, completed,
                   ret, polled, decodes, resp_status, resp_body, delivered, panicked>>
    /\ UNCHANGED <<rvars, evars, avars, tvars>>

NextPipeline ==
    \/ \E b \in Builders : Send(b)
    \/ \E e \in Env(fut, completed) : Poll(e[1], e[2])
    \/ Drop

SpecPipeline == InitPipeline /\ [][NextPipeline]_vars

----------------------------------------------------------------------------
(* Calls of the generated endpoint functions *)

InitEndpoint ==
    /\ TasksIdle
    /\ PipelineIdle
    /\ RateLimiterIdle
    /\ AccessIdle
    /\ EndpointIdle

EndpointIds(ep) ==
    /\ ep_call' = [op |-> "ids", path |-> ep.path, arg |-> <<>>]
    /\ ep_request' = Some(endpoint_ids(ep.path))
    /\ UNCHANGED <<pvars, rvars, avars, tvars>>

EndpointGet(ep, id) ==
    /\ ep_call' = [op |-> "get", path |-> ep.path, arg |-> <<id>>]
    /\ ep_request' = Some(endpoint_get(ep.path, id))
    /\ UNCHANGED <<pvars, rvars, avars, tvars>>

\* get_all exists only where the macro was given its fourth argument
EndpointGetAll(ep) ==
    /\ ep.get_all
    /\ ep_call' = [op |-> "get_all", path |-> ep.path, arg |-> <<>>]
    /\ ep_request' = Some(endpoint_get_all(ep.path))
    /\ UNCHANGED <<pvars, rvars, avars, tvars>>

GetWithIds(ep, ids) ==
    /\ ep_call' = [op |-> "get_with_ids", path |-> ep.path, arg |-> ids]
    /\ ep_request' = Some(blocking_get_with_ids(ep.path, ids))
    /\ UNCHANGED <<pvars, rvars, avars, tvars>>

\* The call has handed its request to the executor and returned.
EndpointReturn ==
    /\ ep_call # NoCall
    /\ ep_call' = NoCall
    /\ ep_request' = None
    /\ UNCHANGED <<pvars, rvars, avars, tvars>>

\* One call at a time: a call is made when the previous one has returned.
NextEndpoint ==
    \/ ep_call = NoCall /\ \E ep \in Endpoints : EndpointIds(ep)
    \/ ep_call = NoCall /\ \E ep \in Endpoints : \E id \in IdsOf(ep.id) : EndpointGet(ep, id)
    \/ ep_call = NoCall /\ \E ep \in Endpoints : EndpointGetAll(ep)
    \/ ep_call = NoCall /\ \E ep \in Endpoints : \E ids \in IdLists(ep.id) : GetWithIds(ep, ids)
    \/ EndpointReturn

SpecEndpoint == InitEndpoint /\ [][NextEndpoint]_vars

----------------------------------------------------------------------------
(* Decoding AccountAccess values *)

InitAccess ==
    /\ TasksIdle
    /\ PipelineIdle
    /\ RateLimiterIdle
    /\ EndpointIdle
    /\ AccessIdle

Deserialize(seq) ==
    /\ aa_input' = seq
    /\ aa_result' = deserialize(seq)
    /\ aa_serialized' = NotSerialized
    /\ UNCHANGED <<pvars, rvars, evars, tvars>>

\* The caller has taken the result.
AccessReturn ==
    /\ aa_result # NotDecoded
    /\ aa_input' = <<>>
    /\ aa_result' = NotDecoded
    /\ aa_serialized' = NotSerialized
    /\ UNCHANGED <<pvars, rvars, evars, tvars>>

\* An AccountAccess is serialized to a JSON array and the array is decoded again.
RoundTrip(a) ==
    /\ aa_serialized' = serialize(a)
    /\ aa_input' = [i \in DOMAIN serialize(a).elems |-> JStr(serialize(a).elems[i])]
    /\ aa_result' = deserialize(aa_input')
    /\ UNCHANGED <<pvars, rvars, evars, tvars>>

\* One decode at a time.
NextAccess ==
    \/ aa_result = NotDecoded /\ \E seq \in AccessInputs : Deserialize(seq)
    \/ aa_result = NotDecoded /\ \E a \in FlagSets : RoundTrip(a)
    \/ AccessReturn

SpecAccess == InitAccess /\ [][NextAccess]_vars

----------------------------------------------------------------------------
(* Properties of the request pipeline, checked under SpecPipeline *)

Range(q) == {q[i] : i \in DOMAIN q}

HeaderValues(req, name) == {h[2] : h \in {x \in Range(req.headers) : x[1] = name}}

\* The most recent send required authentication and the client has no token.
FailFast ==
    /\ builder # None
    /\ builder[1].authentication = "Required"
    /\ access_token = None

\* The step is a send call / a poll of the current future.
SendStep == nsends' = nsends + 1
PollStep == nsends' = nsends /\ dropped' = dropped /\ pvars' # pvars

\* The transport delivered a response with this kind of status and a body.
GotBody == resp_status # None /\ resp_body # None
NonSuccess == resp_status # None /\ ~(200 <= resp_status[1] /\ resp_status[1] <= 299)
Success == resp_status # None /\ 200 <= resp_status[1] /\ resp_status[1] <= 299

\* C1: a send of a request whose authentication is Required, on a client with
\* no access token, hands nothing to the transport and makes a future that
\* holds Err(NoAccessToken); the first poll of that future (by the caller or by
\* block_on) yields that error, and no I/O handle is ever polled for it.
C1_NoTokenFailsFast ==
    /\ [][(SendStep /\ access_token = None /\ builder'[1].authentication = "Required")
            => /\ transport' = transport
               /\ fut' = [state |-> "Result", is_error |-> FALSE,
                          slot |-> Some(ErrNoAccessToken)]]_vars
    /\ [][(FailFast /\ PollStep /\ ret.p = "NotPolled")
            => ret' = Ready(ErrNoAccessToken)]_vars
    /\ [](FailFast => /\ polled = <<>>
                      /\ completed = {}
                      /\ \A i \in DOMAIN delivered : delivered[i] = ErrNoAccessToken)

C1_Witness ==
    /\ FailFast
    /\ mode = "blocking"
    /\ nsends = 2
    /\ transport = <<>>
    /\ delivered = <<ErrNoAccessToken>>

\* C2: when the transport delivered a non-success status and a body that is a
\* JSON object with a string member "text", the caller receives exactly
\* Err(Api) with that text, and the body was decoded through the error schema
\* only, whether the body arrived in the poll that saw the headers or later.
C2_ErrorBodyYieldsApi ==
    (GotBody /\ NonSuccess /\ resp_body[1].syntax = "object"
        /\ resp_body[1].text.k = "str")
    => /\ delivered = <<[tag |-> "Api", text |-> resp_body[1].text.s, id |-> 0]>>
       /\ decodes = <<"ApiError">>

C2_Witness ==
    /\ GotBody
    /\ resp_status = Some(404)
    /\ resp_body = Some(Object(VStr("no access token"), VNum(7)))
    /\ delivered = <<ErrApi("no access token")>>
    /\ polled = <<"body">>

\* The error schema accepts the bytes.
MatchesErrorSchema(buf) == from_slice_ApiError(buf).ok

C4_SuccessDecodesAsT ==
    (GotBody /\ Success)
    => /\ delivered = <<IF from_slice_T(resp_body[1]).ok
                        THEN [tag |-> "Ok", text |-> "", id |-> from_slice_T(resp_body[1]).id]
                        ELSE [tag |-> "Json", text |-> "", id |-> 0]>>
       /\ delivered[1].tag # "Api"
       /\ decodes = <<"T">>

C4_Witness ==
    /\ GotBody
    /\ resp_status = Some(299)
    /\ resp_body = Some(Object(VStr("no access token"), VAbsent))
    /\ delivered = <<ErrJson>>

\* The most recent send handed a request to the transport.
Dispatched == fut.state \in {"Response", "Body"}
LastRequest == transport[Len(transport)]

\* C5: the request a send dispatched carries the authorization header, once
\* and with the value "Bearer <token>", exactly when the client has a token and
\* the request's authentication is not None.
C5_BearerIffTokenAndAuth ==
    Dispatched
    => LET vals == HeaderValues(LastRequest, "authorization")
           n == Cardinality({i \in DOMAIN LastRequest.headers :
                               LastRequest.headers[i][1] = "authorization"})
       IN  IF access_token # None /\ builder[1].authentication # "None"
           THEN vals = {"Bearer " \o access_token[1]} /\ n = 1
           ELSE vals = {} /\ n = 0

C5_Witness ==
    /\ Dispatched
    /\ Len(transport) = 2
    /\ builder[1].authentication = "None"
    /\ access_token = Some("ABCD-1234")
    /\ HeaderValues(transport[1], "authorization") = {"Bearer ABCD-1234"}
    /\ HeaderValues(transport[2], "authorization") = {}

\* C6: every request handed to the transport carries the schema-version header
\* with the one literal value.
C6_SchemaVersionPinned ==
    \A i \in DOMAIN transport :
        HeaderValues(transport[i], "x-schema-version") = {"2022-03-23T19:00:00.000Z"}

C6_Witness ==
    /\ Len(transport) = 2
    /\ transport[1].uri # transport[2].uri
    /\ HeaderValues(transport[1], "authorization") # {}
    /\ HeaderValues(transport[2], "authorization") = {}
    /\ builder[1].localized
    /\ language = "de"

StateRank(st) ==
    CASE st = "Response" -> 1
      [] st = "Body" -> 2
      [] st = "Result" -> 3
      [] OTHER -> 0

\* C10: a poll never moves a response future to an earlier state (Response,
\* then Body, then Result), a poll that reaches both handles polls the header
\* handle first, and once the future is in Body no poll polls the header
\* handle.
C10_StateMovesForward ==
    /\ [][PollStep => StateRank(fut'.state) >= StateRank(fut.state)]_vars
    /\ [][(PollStep /\ fut.state = "Body") => "header" \notin Range(polled')]_vars
    /\ [](polled \in {<<>>, <<"header">>, <<"header", "body">>, <<"body">>})

C10_Witness ==
    /\ fut.state = "Body"
    /\ "header" \in completed
    /\ ret = Pending
    /\ polled = <<"body">>

----------------------------------------------------------------------------
(* Properties of the rate limiter, checked under SpecRateLimiter *)

\* The step is a poll_ready call that returned.
PollReadyStep == ncalls' = ncalls + 1 /\ ~poisoned'

Admissions(q) == Cardinality({i \in DOMAIN q : q[i] = "Ready"})

\* C7: between two admissions inside one window the remaining counter goes
\* down, and a window never grants more admissions than the limit it was
\* opened with.
C7_RemainingDecreasesNoOverAdmission ==
    /\ [][(PollReadyStep /\ rl_op'.ret = "Ready" /\ nwindows' = nwindows
             /\ rl_state.tag = "Ready")
            => rl_state'.rem < rl_state.rem]_vars
    /\ [](nwindows >= 1 => Admissions(outcomes) <= win_limit)

\* C8: in a window opened with limit 3, the first two admission attempts are
\* admitted and the third and fourth report Pending.
C8_LimitThreeAdmitsTwo ==
    (nwindows >= 1 /\ win_limit = 3)
    => \A k \in DOMAIN outcomes :
          k <= 4 => outcomes[k] = <<"Ready", "Ready", "Pending", "Pending">>[k]

\* The current window is still open at the current time.
InWindow ==
    /\ ~poisoned
    /\ \/ rl_state.tag = "Ready" /\ now < rl_state.until
       \/ rl_state.tag = "Limited" /\ now < rl_sleep

\* C9: a change call leaves the window state and the timer as they are, and
\* while the current window is open the outcome of poll_ready (the value
\* returned and the state afterwards) is the same for every configured limit,
\* so it is the one the limit the window was opened with gives.
C9_ChangeNotRetroactive ==
    /\ [][rl_op'.op = "change" => (rl_state' = rl_state /\ rl_sleep' = rl_sleep)]_vars
    /\ [](InWindow =>
            \A l \in Limits :
                poll_ready(rl_state, rl_sleep, l, now, overflow_checks)
                    = poll_ready(rl_state, rl_sleep, win_limit, now, overflow_checks))

C9_Witness ==
    /\ rl_op = [op |-> "poll_ready", ret |-> "Ready"]
    /\ Len(outcomes) >= 2
    /\ win_limit = 3
    /\ limit = 0
    /\ InWindow

\* The end of the window the limiter is in: the until of Ready, or the
\* deadline the timer was armed with on the way to Limited.
WindowEnd(st, sl) == IF st.tag = "Ready" THEN st.until ELSE sl

\* C23: a poll_ready in state Ready at or past the window end decides against
\* a fresh window: the window ends 60 s from now and the call is admitted
\* exactly when the limit configured at that moment leaves room, whatever the
\* old counter was; before the window end the window end stays as it is; the
\* first poll_ready after construction opens a fresh window.
C23_ExpiredWindowIsReset ==
    /\ [][(PollReadyStep /\ rl_state.tag = "Ready" /\ now >= rl_state.until)
            => /\ WindowEnd(rl_state', rl_sleep') = now + WINDOW
               /\ rl_op'.ret = "Ready" <=> limit > 1
               /\ rl_op'.ret = "Pending" <=> rl_state' = StateLimited]_vars
    /\ [][(PollReadyStep /\ rl_state.tag = "Ready" /\ now < rl_state.until)
            => WindowEnd(rl_state', rl_sleep') = rl_state.until]_vars
    /\ [][(PollReadyStep /\ ncalls = 0)
            => WindowEnd(rl_state', rl_sleep') = now + WINDOW]_vars

C23_Witness ==
    /\ rl_op = [op |-> "poll_ready", ret |-> "Ready"]
    /\ nwindows = 2 /\ now >= WINDOW
    /\ rl_state.tag = "Ready" /\ rl_state.until = now + WINDOW

\* The step is a poll_ready call on a limiter whose mutex is not poisoned.
CallStep == ncalls' = ncalls + 1 /\ ~poisoned

\* C24: in Limited, poll_ready reports Pending and stays Limited while the
\* timer has not elapsed; the first poll_ready after it has elapsed moves to
\* Ready with remaining = limit - 1 and window end = now + 60 s and admits. In
\* Ready with remaining <= 1, poll_ready arms the timer for the window end,
\* moves to Limited and reports Pending.
C24_LimitedUntilDeadline ==
    /\ [][(CallStep /\ rl_state.tag = "Limited" /\ now < rl_sleep)
            => /\ rl_op'.ret = "Pending"
               /\ rl_state' = StateLimited /\ rl_sleep' = rl_sleep]_vars
    /\ [][(CallStep /\ rl_state.tag = "Limited" /\ now >= rl_sleep)
            => /\ rl_op'.ret = "Ready"
               /\ rl_state' = StateReady(now + WINDOW, limit - 1)]_vars
    /\ [][(CallStep /\ rl_state.tag = "Ready"
             /\ (IF now >= rl_state.until THEN limit ELSE rl_state.rem) <= 1)
            => /\ rl_op'.ret = "Pending"
               /\ rl_state' = StateLimited
               /\ rl_sleep' = IF now >= rl_state.until THEN now + WINDOW
                              ELSE rl_state.until]_vars

\* C29: for every configured limit, 0 included, the limit - 1 computed when a
\* fresh window is opened on leaving Limited does not underflow: the call does
\* not panic, the remaining counter is within 0..limit, and while the limit is
\* 0 and the window was opened with 0 no call is admitted.
C29_NoUnderflowOnReopen ==
    /\ [][(CallStep /\ rl_state.tag = "Limited" /\ now >= rl_sleep)
            => /\ ~poisoned'
               /\ rl_state'.tag = "Ready"
               /\ rl_state'.rem \in 0 .. limit]_vars
    /\ [][(CallStep /\ limit = 0 /\ win_limit = 0) => rl_op'.ret # "Ready"]_vars

----------------------------------------------------------------------------
(* Properties of tasks sharing one rate limiter, checked under SpecTasks *)

\* C25: for every interleaving of poll_ready and change calls of concurrent
\* tasks, a task inside poll_ready is the one holder of the mutex and the
\* window state it read is still the stored one when it writes; a task that
\* has returned from poll_ready (admitted, suspended on Pending, or panicked)
\* holds no guard; and whenever a task wants to enter or is inside poll_ready,
\* some task can take its step.
C25_PollReadyAtomicNoDeadlock ==
    /\ \A t \in Tasks :
          tasks[t].pc = "locked" => (rl_lock = Some(t) /\ tasks[t].seen = rl_state)
    /\ \A t \in Tasks : tasks[t].pc # "locked" => rl_lock # Some(t)
    /\ (\E t \in Tasks : tasks[t].pc \in {"start", "locked"})
          => ENABLED (\E u \in Tasks : Acquire(u) \/ Finish(u))

C25_Witness ==
    /\ tasks[1].pc = "suspended"
    /\ tasks[2].pc = "locked" /\ rl_lock = Some(2)
    /\ tasks[3].pc = "start"
    /\ rl_op.op = "change"

\* C27: whenever a poll_ready of a task returns Pending, the timer holds that
\* task's waker.
C27_PendingRegistersWaker ==
    [][\A t \in Tasks :
          (tasks[t].pc = "locked" /\ tasks'[t].pc = "suspended")
              => rl_waker' = Some(t)]_vars

\* C28: a task suspended in Limited that handed its waker to the timer stays
\* registered there until the timer wakes it: no later poll of another task
\* takes its place.
C28_NoWakerReplaced ==
    \A t \in Tasks :
        (tasks[t].pc = "suspended" /\ tasks[t].reg) => rl_waker = Some(t)

----------------------------------------------------------------------------
(* Further properties of the request pipeline, checked under SpecPipeline *)

\* C11: a poll of a future in Result that still holds its result returns that
\* result and empties the slot; a poll of a future in Result whose slot is
\* empty panics and hands the caller nothing, so the caller never receives a
\* second result from it.
C11_ResultYieldedOnce ==
    /\ [][(PollStep /\ fut.state = "Result" /\ fut.slot # None)
            => /\ ret' = Ready(fut.slot[1])
               /\ fut' = [fut EXCEPT !.slot = None]
               /\ delivered' = Append(delivered, fut.slot[1])]_vars
    /\ [][(PollStep /\ fut.state = "Result" /\ fut.slot = None)
            => /\ panicked'
               /\ ret'.p = "Panic"
               /\ delivered' = delivered]_vars
    /\ [](fut.state = "Result" => Len(delivered) <= 1)

C11_Witness ==
    /\ fut.state = "Result"
    /\ fut.slot = None
    /\ panicked
    /\ delivered = <<ErrNoAccessToken>>

\* What the async future of the most recent send resolves to, given the
\* client's token, the request and what the transport reported.
AsyncResolution ==
    CASE builder[1].authentication # "None" /\ access_token = None -> ErrNoAccessToken
      [] "header" \in completed /\ resp_status = None -> ErrHttp
      [] "body" \in completed /\ resp_body = None -> ErrHttp
      [] OTHER -> DecodeBody(NonSuccess, resp_body[1])

\* C12: the result a caller receives is the async resolution for the request
\* and the transport's behaviour, whichever client is used; the blocking send
\* returns once, only when a poll of the future was Ready and with that poll's
\* value, never panics, and hands the transport the request the async send
\* builds (none when the async send fails fast).
C12_BlockingMatchesAsync ==
    /\ delivered # <<>> => delivered[1] = AsyncResolution
    /\ (mode = "blocking" /\ fut.state # "NoFuture")
        => /\ ~panicked
           /\ Len(delivered) <= 1
           /\ delivered # <<>> <=> ret.p = "Ready"
           /\ ret.p = "Ready" => delivered = ret.r
           /\ Dispatched <=> send(access_token, builder[1]) # None
           /\ Dispatched => LastRequest = send(access_token, builder[1])[1]

C12_Witness ==
    /\ mode = "blocking"
    /\ access_token # None
    /\ builder # None
    /\ builder[1].authentication = "Required"
    /\ polled = <<"body">>
    /\ delivered = <<ErrApi("Invalid access token")>>

\* C16: each send issues at most one transport request and the caller
\* receives at most one result for it; no poll issues a transport request, and
\* once a poll has returned a result (a transport failure, a decode failure, an
\* API error or a value) a further poll yields nothing more.
C16_OneRequestOneResult ==
    /\ [](Len(transport) <= nsends /\ Len(delivered) <= 1)
    /\ [][SendStep => Len(transport') <= Len(transport) + 1]_vars
    /\ [][PollStep => transport' = transport]_vars
    /\ [][(PollStep /\ ret.p = "Ready")
            => /\ panicked' /\ delivered' = delivered /\ decodes' = decodes]_vars

C16_Witness ==
    /\ nsends = 1 /\ Len(transport) = 1
    /\ delivered = <<ErrHttp>> /\ completed = {"header"}
    /\ panicked

\* C17: a request whose authentication is Optional, sent on a client with no
\* token, is dispatched to the transport without a credential header and does
\* not yield NoAccessToken.
C17_OptionalDispatchedWithoutToken ==
    (builder # None /\ builder[1].authentication = "Optional" /\ access_token = None)
        => /\ Dispatched
           /\ HeaderValues(LastRequest, "authorization") = {}
           /\ ErrNoAccessToken \notin Range(delivered)

\* A handle of the current future completed without delivering anything: the
\* transport reported a failure while the future awaited headers / the body.
HeaderFailed == "header" \in completed /\ resp_status = None
BodyFailed == "body" \in completed /\ resp_body = None

\* C18: a transport failure reported while awaiting headers or while awaiting
\* the body makes the future resolve to an error of kind Http (is_http true,
\* is_json false), and nothing of that response is decoded through either
\* schema.
C18_TransportFailureIsHttp ==
    (HeaderFailed \/ BodyFailed)
        => /\ delivered = <<ErrHttp>>
           /\ is_http(delivered[1]) /\ ~is_json(delivered[1])
           /\ decodes = <<>>
           /\ ret = Ready(ErrHttp) \/ panicked

C18_Witness ==
    /\ BodyFailed /\ resp_status = Some(200) /\ polled = <<"body">>
    /\ ret = Ready(ErrHttp) /\ decodes = <<>>

\* The future is parked in State::Body: an earlier poll saw the status and
\* found the body read pending.
AwaitingBody == fut.state = "Body" /\ "body" \notin completed /\ ret = Pending

\* C20: the error flag set when the status was seen is still set when the body
\* completes in a later poll: while the future waits in Body the flag says
\* whether the status was non-success, and the poll that then receives the
\* bytes decodes them through the error schema if and only if it was.
C20_ErrorFlagSurvives ==
    /\ [](AwaitingBody => (fut.is_error <=> NonSuccess))
    /\ [][(PollStep /\ AwaitingBody /\ resp_body' # None)
            => /\ polled' = <<"body">>
               /\ decodes' = <<IF NonSuccess THEN "ApiError" ELSE "T">>
               /\ ret'.p = "Ready"]_vars

C20_Witness ==
    /\ resp_status = Some(300) /\ resp_body # None
    /\ polled = <<"body">> /\ decodes = <<"ApiError">>
    /\ fut.is_error /\ ret.p = "Ready"

\* The I/O handle the future holds in its state, if any
Held(f) ==
    CASE f.state = "Response" -> {"header"}
      [] f.state = "Body" -> {"body"}
      [] OTHER -> {}

\* C21: once a poll has returned a final result from the Response or the Body
\* state, the future no longer holds the handle that completed, and no later
\* poll polls a handle that already completed.
C21_ReadyIsTerminal ==
    /\ [](Held(fut) \cap completed = {})
    /\ [][PollStep => Range(polled') \cap completed = {}]_vars

\* C22: the poll that sees the response begins the body read and polls it in
\* the same call; when the body is ready at once that poll returns the final
\* result; a poll returns Pending only after the handle it then holds has been
\* polled in that call and was pending; a poll that finds the header handle
\* pending leaves the state and the error flag as they were.
C22_BodyPolledInSamePoll ==
    /\ [][(PollStep /\ fut.state = "Response" /\ resp_status' # None)
            => /\ fut'.state = "Body"
               /\ polled' = <<"header", "body">>
               /\ resp_body' # None => (ret'.p = "Ready" /\ Len(decodes') = 1)
               /\ ret' = Pending <=> "body" \notin completed']_vars
    /\ [][(PollStep /\ ret' = Pending)
            => /\ polled' # <<>>
               /\ Held(fut') = {polled'[Len(polled')]}
               /\ Held(fut') \cap completed' = {}]_vars
    /\ [][(PollStep /\ fut.state = "Response" /\ ret' = Pending /\ resp_status' = None)
            => (fut' = fut /\ polled' = <<"header">>)]_vars

C22_Witness ==
    /\ polled = <<"header", "body">> /\ ret.p = "Ready"
    /\ resp_status = Some(200) /\ resp_body # None /\ decodes = <<"T">>
    /\ fut.state = "Body"

\* C26: dropping a future whose request is in flight releases the handle it
\* owns; from then on nothing happens on behalf of that request (no poll, no
\* transport request, no decode) and the caller receives no result for it.
C26_DropAbandonsRequest ==
    /\ [][(~dropped /\ dropped')
            => /\ Held(fut) # {} /\ Held(fut') = {}
               /\ UNCHANGED <<transport, delivered, ret, polled, decodes, completed>>]_vars
    /\ [][(dropped /\ ~SendStep) => UNCHANGED pvars]_vars
    /\ [](dropped => (delivered = <<>> /\ ret.p # "Ready" /\ ~panicked))

C26_Witness ==
    /\ dropped /\ fut.state = "Dropped"
    /\ resp_status = Some(404) /\ ret = Pending /\ polled = <<"header", "body">>

\* p occurs in s; s ends with p
Contains(s, p) ==
    \E i \in 1 .. (Len(s) - Len(p) + 1) : SubSeq(s, i, i + Len(p) - 1) = p
EndsWith(s, p) ==
    Len(s) >= Len(p) /\ SubSeq(s, Len(s) - Len(p) + 1, Len(s)) = p

\* C15: the URI dispatched for a request built with localized = true ends with
\* lang=<the client's language>, joined with & when the builder's URI already
\* has a query parameter and with ? otherwise; the URI dispatched for a
\* request built with localized = false has no lang parameter.
C15_LocalizedCarriesLang ==
    Dispatched =>
        LET b == builder[1]
            sep == IF Contains(b.uri, "?") THEN "&" ELSE "?"
        IN  IF b.localized
            THEN LastRequest.uri = Host \o b.uri \o sep \o "lang=" \o language
            ELSE ~Contains(LastRequest.uri, "lang=")

----------------------------------------------------------------------------
(* Properties of the generated endpoint functions, checked under SpecEndpoint *)

\* s starts with prefix p; the rest of s after p
StartsWith(s, p) == Len(s) >= Len(p) /\ SubSeq(s, 1, Len(p)) = p
After(s, p) == SubSeq(s, Len(p) + 1, Len(s))

IsDigit(c) == \E d \in 1 .. 10 : Digits[d] = c
DigitValue(c) == (CHOOSE d \in 1 .. 10 : Digits[d] = c) - 1

\* The number a non-empty string of decimal digits denotes, or -1
RECURSIVE ParseU64(_)
ParseU64(s) ==
    IF Len(s) = 0 \/ ~IsDigit(SubSeq(s, Len(s), Len(s))) THEN -1
    ELSE IF Len(s) = 1 THEN DigitValue(s)
    ELSE LET front == ParseU64(SubSeq(s, 1, Len(s) - 1))
         IN  IF front = -1 THEN -1
             ELSE front * 10 + DigitValue(SubSeq(s, Len(s), Len(s)))

\* text is the canonical rendering of id
Renders(text, id) ==
    IF id.t = "u64"
    THEN /\ ParseU64(text) = id.n
         /\ Len(text) > 1 => SubSeq(text, 1, 1) # "0"
    ELSE text = id.s

Unmarked(b) == b.authentication = "None" /\ b.localized = FALSE

\* C13: for every endpoint! path P and id i, ids() requests exactly P, get(i)
\* requests P followed by "?id=" and the rendering of i, get_all() requests P
\* followed by "?ids=all"; all three with authentication None and localized
\* false. Color::get(69) requests "/v2/colors?id=69".
C13_EndpointUris ==
    /\ ep_call.op \in {"ids", "get", "get_all"} =>
        /\ ep_request # None
        /\ Unmarked(ep_request[1])
        /\ send(None, ep_request[1]) # None
        /\ send(None, ep_request[1])[1].uri = Host \o ep_request[1].uri
    /\ ep_call.op = "ids" => ep_request[1].uri = ep_call.path
    /\ ep_call.op = "get_all" =>
        /\ StartsWith(ep_request[1].uri, ep_call.path)
        /\ After(ep_request[1].uri, ep_call.path) = "?ids=all"
    /\ ep_call.op = "get" =>
        /\ StartsWith(ep_request[1].uri, ep_call.path \o "?id=")
        /\ Renders(After(ep_request[1].uri, ep_call.path \o "?id="), ep_call.arg[1])
    /\ (ep_call.op = "get" /\ ep_call.path = Color.path /\ ep_call.arg = <<U64(69)>>)
        => ep_request[1].uri = "/v2/colors?id=69"

C13_Witness ==
    /\ ep_call = [op |-> "get", path |-> "/v2/achievements", arg |-> <<U64(104)>>]
    /\ ep_request = Some(RequestBuilderNew("/v2/achievements?id=104"))

\* The pieces of s between commas, in order
RECURSIVE SplitComma(_)
SplitComma(s) ==
    IF Len(s) = 0 THEN <<"">>
    ELSE LET front == SplitComma(SubSeq(s, 1, Len(s) - 1))
             c == SubSeq(s, Len(s), Len(s))
         IN  IF c = "," THEN Append(front, "")
             ELSE [front EXCEPT ![Len(front)] = @ \o c]

\* C14: for every non-empty list of ids the "multiple ids" URI is the path
\* followed by ?ids=i0,i1,...,iN: one piece per id, in the order given, nothing
\* removed, nothing sorted, no trailing separator. [0,1,2,3] gives ids=0,1,2,3.
C14_IdsJoinedInOrder ==
    ep_call.op = "get_with_ids" =>
        LET uri == ep_request[1].uri
            ids == ep_call.arg
            pieces == SplitComma(After(uri, ep_call.path \o "?ids="))
        IN  /\ Unmarked(ep_request[1])
            /\ StartsWith(uri, ep_call.path \o "?ids=")
            /\ Len(pieces) = Len(ids)
            /\ \A i \in DOMAIN ids : Renders(pieces[i], ids[i])
            /\ ids = <<U64(0), U64(1), U64(2), U64(3)>>
                => After(uri, ep_call.path) = "?ids=0,1,2,3"

C14_Witness ==
    /\ ep_call = [op |-> "get_with_ids", path |-> "/v2/worlds",
                  arg |-> <<U64(3), U64(0), U64(3)>>]
    /\ ep_request = Some(RequestBuilderNew("/v2/worlds?ids=3,0,3"))

----------------------------------------------------------------------------
(* Properties of the AccountAccess decoder, checked under SpecAccess *)

KnownNames ==
    {"None", "PlayForFree", "GuildWars2", "HeartOfThorns", "PathOfFire", "EndOfDragons"}

\* What the accessor for a known name says of the bits a
Grants(a, name) ==
    CASE name = "None" -> none(a)
      [] name = "PlayForFree" -> play_for_free(a)
      [] name = "GuildWars2" -> guild_wars_2(a)
      [] name = "HeartOfThorns" -> heart_of_thorns(a)
      [] name = "PathOfFire" -> path_of_fire(a)
      [] name = "EndOfDragons" -> end_of_dragons(a)

\* The position of the first element that is not a known name, or 0
FirstForeign(seq) ==
    IF \A i \in DOMAIN seq : seq[i].k = "str" /\ seq[i].s \in KnownNames THEN 0
    ELSE CHOOSE i \in DOMAIN seq :
            /\ ~(seq[i].k = "str" /\ seq[i].s \in KnownNames)
            /\ \A j \in 1 .. (i - 1) : seq[j].k = "str" /\ seq[j].s \in KnownNames

\* C19: decoding a sequence fails with "invalid account access" as soon as it
\* reaches a string outside the six known names, whatever follows; an unknown
\* string is never dropped; a sequence of known names only decodes to exactly
\* the bits of the names present, however often each is repeated.
C19_UnknownAccessRejected ==
    aa_result # NotDecoded =>
        LET k == FirstForeign(aa_input)
            present == {aa_input[i].s : i \in DOMAIN aa_input}
        IN  /\ (k # 0 /\ aa_input[k].k = "str")
                => aa_result = DecodedErr("invalid account access")
            /\ (\E i \in DOMAIN aa_input :
                    aa_input[i].k = "str" /\ aa_input[i].s \notin KnownNames)
                => aa_result.t = "Err"
            /\ k = 0
                => /\ aa_result.t = "Ok"
                   /\ aa_result.bits \in 0 .. 63
                   /\ \A name \in KnownNames :
                        Grants(aa_result.bits, name) <=> name \in present
                   /\ len(aa_result.bits) = Cardinality(present)

C19_Witness ==
    /\ aa_input = <<JStr("GuildWars2"), JStr("SecretsOfTheObscure"), JStr("PathOfFire")>>
    /\ aa_result = DecodedErr("invalid account access")

\* C30: for every one of the 64 flag sets, decoding the serialized form gives
\* the same flag set back, and the number of elements written equals the
\* length declared to the serializer, the count of set bits.
C30_AccessRoundTrip ==
    aa_serialized # NotSerialized =>
        /\ aa_result = DecodedOk(aa_serialized.value)
        /\ Len(aa_serialized.elems) = aa_serialized.declared
        /\ aa_serialized.declared
             = Cardinality({name \in KnownNames : Grants(aa_serialized.value, name)})

====
